---- MODULE Spec2Model ----
(***************************************************************************)
(* A model of three parts of ext-php-rs:                                   *)
(*   - the registration state that the #[php_const] parser checks and      *)
(*     extends (ext-php-rs-derive/src/constant.rs);                        *)
(*   - ModuleBuilder and ModuleEntry::into_raw (src/php/module.rs), with   *)
(*     the heap buffers they own, leak and free;                           *)
(*   - PhpAllocator, the GlobalAlloc shim over _emalloc/_efree             *)
(*     (src/php/allocator.rs).                                             *)
(* Each part has its own next-state relation and specification; the        *)
(* variables of the other parts stay at their initial values.              *)
(***************************************************************************)
EXTENDS Integers, Sequences, FiniteSets, TLC

VARIABLES
    state,      \* STATE of the derive crate: constants, classes, startup_function, built_module
    decls,      \* history: every declaration made, with its outcome
    lock,       \* the holder of the STATE mutex
    threads,    \* each expanding thread's position in its parser and its input
    builders,   \* the ModuleBuilder values alive, by slot
    heap,       \* every heap allocation made by a builder or by into_raw
    results,    \* history: the outcome of every build() call
    nops,       \* number of operations performed since ModuleBuilder::new
    host,       \* the host's request arena and the calls it received
    shimLog     \* history: the calls made on PhpAllocator, with their results

vars == <<state, decls, lock, threads, builders, heap, results, nops, host, shimLog>>

seqVars     == <<state, decls, lock, threads>>
builderVars == <<builders, heap, results, nops>>
allocVars   == <<host, shimLog>>

----------------------------------------------------------------------------
(* Bounds of the model.                                                    *)

MaxDecls    == 4    \* declarations made in one build of the extension
MaxOps      == 3    \* operations that follow ModuleBuilder::new in one run
MaxCalls    == 4    \* calls made on the allocator shim

----------------------------------------------------------------------------
(* Option<T> and Result<T, E>.                                             *)

None == [tag |-> "None"]

Some(x) == [tag |-> "Some", val |-> x]

IsSome(o) == o.tag = "Some"

Ok(v) == [ok |-> TRUE, val |-> v]

Err(e) == [ok |-> FALSE, err |-> e]

----------------------------------------------------------------------------
(* Registration state and the #[php_const] parser.                         *)

ConstNames == {"A", "B"}

ClassNames == {"K"}

InitState ==
    [constants |-> <<>>, classes |-> <<>>, startup_function |-> None,
     built_module |-> FALSE]

\* A mutant of ConstantParser: the startup check is missing.
ConstantParserNoCheck(st, input) ==
    [state |-> [st EXCEPT !.constants = Append(@, input)], result |-> Ok(input)]

\* A mutant of ConstantParser: the constant is pushed before the check.
ConstantParserPushFirst(st, input) ==
    [state  |-> [st EXCEPT !.constants = Append(@, input)],
     result |-> IF IsSome(st.startup_function)
                THEN Err("OrderingViolation") ELSE Ok(input)]

\* constant::parser: under one hold of the STATE lock, bail when a startup
\* function is recorded, else push the constant and return the item.
ConstantParser(st, input) ==
    IF IsSome(st.startup_function)
    THEN [state |-> st, result |-> Err("OrderingViolation")]
    ELSE [state |-> [st EXCEPT !.constants = Append(@, input)],
          result |-> Ok(input)]

\* #[php_class]: classes are defined above the startup function.
ClassParser(st, input) ==
    IF IsSome(st.startup_function) \/ st.built_module
    THEN [state |-> st, result |-> Err("OrderingViolation")]
    ELSE [state |-> [st EXCEPT !.classes = Append(@, input)],
          result |-> Ok(input)]

\* #[php_startup]: records the startup callback; at most one, before the module.
StartupParser(st, input) ==
    IF IsSome(st.startup_function) \/ st.built_module
    THEN [state |-> st, result |-> Err("OrderingViolation")]
    ELSE [state |-> [st EXCEPT !.startup_function = Some(input)],
          result |-> Ok(input)]

\* #[php_module]: the final step, once.  A startup function is generated
\* when none was declared and classes or constants were registered.
ModuleParser(st, input) ==
    IF st.built_module
    THEN [state |-> st, result |-> Err("AlreadyBuilt")]
    ELSE LET generate == (st.classes # <<>> \/ st.constants # <<>>)
                         /\ ~IsSome(st.startup_function)
         IN  [state |-> [st EXCEPT
                  !.built_module = TRUE,
                  !.startup_function =
                      IF generate THEN Some("php_module_startup") ELSE @],
              result |-> Ok(input)]

Declare(kind, input, r) ==
    /\ Len(decls) < MaxDecls
    /\ state' = r.state
    /\ decls' = Append(decls, [kind |-> kind, input |-> input, result |-> r.result])
    /\ UNCHANGED <<lock, threads, builderVars, allocVars>>

DeclareConstant == \E c \in ConstNames : Declare("const", c, ConstantParser(state, c))

DeclareClass == \E k \in ClassNames : Declare("class", k, ClassParser(state, k))

DeclareStartup == Declare("startup", "startup_function", StartupParser(state, "startup_function"))

DeclareModule == Declare("module", "get_module", ModuleParser(state, "get_module"))

SeqNext == DeclareConstant \/ DeclareClass \/ DeclareStartup \/ DeclareModule

----------------------------------------------------------------------------
(* The parsers run by several threads on the shared STATE.  A parser takes *)
(* the mutex with STATE.lock() and holds the guard until it returns.       *)

Free == "free"

ConstThreads == {"c1", "c2"}

StartupThreads == {"s"}

Idle == [pc |-> "idle", input |-> "none"]

\* A mutant of StateLock: the state is reached without taking the mutex.
StateLockNone(lk, t) == lk

\* STATE.lock(): the caller becomes the holder (it waits while another holds it).
StateLock(lk, t) == t

\* The guard goes out of scope when the parser returns.
Unlock(lk, t) == IF lk = t THEN Free ELSE lk

InFlight == {t \in DOMAIN threads : threads[t].pc # "idle"}

Begin == Len(decls) + Cardinality(InFlight) < MaxDecls

Log(kind, input, result) ==
    decls' = Append(decls, [kind |-> kind, input |-> input, result |-> result])

\* let mut state = STATE.lock();
ConstLock ==
    \E t \in ConstThreads, c \in ConstNames :
        /\ threads[t].pc = "idle" /\ Begin
        /\ lock = Free
        /\ lock' = StateLock(lock, t)
        /\ threads' = [threads EXCEPT ![t] = [pc |-> "check", input |-> c]]
        /\ UNCHANGED <<state, decls, builderVars, allocVars>>

\* if state.startup_function.is_some() { bail!(..) }
ConstCheck ==
    \E t \in ConstThreads :
        /\ threads[t].pc = "check"
        /\ IF IsSome(state.startup_function)
           THEN /\ Log("const", threads[t].input, Err("OrderingViolation"))
                /\ lock' = Unlock(lock, t)
                /\ threads' = [threads EXCEPT ![t] = Idle]
           ELSE /\ threads' = [threads EXCEPT ![t].pc = "push"]
                /\ UNCHANGED <<decls, lock>>
        /\ UNCHANGED <<state, builderVars, allocVars>>

\* state.constants.push(..); Ok(..)
ConstPush ==
    \E t \in ConstThreads :
        /\ threads[t].pc = "push"
        /\ state' = [state EXCEPT !.constants = Append(@, threads[t].input)]
        /\ Log("const", threads[t].input, Ok(threads[t].input))
        /\ lock' = Unlock(lock, t)
        /\ threads' = [threads EXCEPT ![t] = Idle]
        /\ UNCHANGED <<builderVars, allocVars>>

\* #[php_startup] takes the same mutex.
StartupLock ==
    \E t \in StartupThreads :
        /\ threads[t].pc = "idle" /\ Begin
        /\ lock = Free
        /\ lock' = StateLock(lock, t)
        /\ threads' = [threads EXCEPT ![t] = [pc |-> "set", input |-> "startup_function"]]
        /\ UNCHANGED <<state, decls, builderVars, allocVars>>

StartupSet ==
    \E t \in StartupThreads :
        LET r == StartupParser(state, threads[t].input)
        IN  /\ threads[t].pc = "set"
            /\ state' = r.state
            /\ Log("startup", threads[t].input, r.result)
            /\ lock' = Unlock(lock, t)
            /\ threads' = [threads EXCEPT ![t] = Idle]
            /\ UNCHANGED <<builderVars, allocVars>>

ConcNext == ConstLock \/ ConstCheck \/ ConstPush \/ StartupLock \/ StartupSet

----------------------------------------------------------------------------
(* Heap buffers.  An address is an index of heap; a cell records who owns  *)
(* the allocation (a builder slot, or nobody once it was released with     *)
(* into_raw), whether it was freed, and the data it holds.                 *)

Null == 0

NoOwner == 0

NUL == 0

\* The names and versions tried: without a NUL byte, and with one at the
\* start, at the end, in the middle and alone.
Strings ==
    {<<>>, <<1>>, <<1, 2>>, <<NUL>>, <<NUL, 1>>, <<1, NUL>>, <<1, NUL, 2>>}

Cell(owner, data) == [owner |-> owner, freed |-> FALSE, data |-> data]

\* Dropping a value frees every buffer it still owns.
DropOwned(h, slot) ==
    [a \in DOMAIN h |->
        IF h[a].owner = slot /\ ~h[a].freed
        THEN [h[a] EXCEPT !.freed = TRUE, !.owner = NoOwner]
        ELSE h[a]]

\* A mutant of IntoRaw: the address is taken but the owner keeps the buffer
\* (as_ptr instead of into_raw).
AsPtr(h, a) == h

\* Box::into_raw / CString::into_raw: the buffer at a has no owner any more.
IntoRaw(h, a) == [h EXCEPT ![a].owner = NoOwner]

HasNul(s) == \E i \in 1..Len(s) : s[i] = NUL

\* The bytes before the first NUL: what a reader of a C string sees.
UpToNul(s) ==
    IF HasNul(s)
    THEN SubSeq(s, 1, (CHOOSE i \in 1..Len(s) :
                          s[i] = NUL /\ \A j \in 1..(i - 1) : s[j] # NUL) - 1)
    ELSE s

\* A mutant of CStringNew: an embedded NUL truncates instead of failing.
CStringNewTruncating(s) == Ok(Append(UpToNul(s), NUL))

\* CString::new: NulError on an embedded NUL, else the bytes and a terminator.
CStringNew(s) == IF HasNul(s) THEN Err("NulError") ELSE Ok(Append(s, NUL))

----------------------------------------------------------------------------
(* ModuleBuilder.                                                          *)

Funcs == {"f", "g"}

InfoFuncs == {"php_module_info"}

FunctionEntries == {[fname |-> 1, handler |-> 1], [fname |-> 2, handler |-> 2]}

\* FunctionEntry::end(): the all-zero entry.
FunctionEntryEnd == [fname |-> Null, handler |-> Null]

NewModuleEntry ==
    [size |-> "size_of::<ModuleEntry>()",
     zend_api |-> "ZEND_MODULE_API_NO",
     zend_debug |-> "ZEND_DEBUG",
     zts |-> "USING_ZTS",
     ini_entry |-> Null,
     deps |-> Null,
     name |-> Null,
     functions |-> Null,
     module_startup_func |-> None,
     module_shutdown_func |-> None,
     request_startup_func |-> None,
     request_shutdown_func |-> None,
     info_func |-> None,
     version |-> Null,
     globals_size |-> 0,
     globals_ptr |-> Null,
     globals_ctor |-> None,
     globals_dtor |-> None,
     post_deactivate_func |-> None,
     module_started |-> 0,
     type_ |-> 0,
     handle |-> Null,
     module_number |-> 0,
     build_id |-> "ext_php_rs_php_build_id()"]

\* ModuleBuilder::new: the two strings, a null/zero module record, no functions.
New(h, slot, name, version) ==
    LET a == Len(h)
    IN  [builder |-> [name |-> a + 1, version |-> a + 2, functions |-> a + 3,
                      module |-> NewModuleEntry],
         heap |-> h \o <<Cell(slot, name), Cell(slot, version), Cell(slot, <<>>)>>]

\* #[derive(Clone)]: String and Vec are copied into buffers of their own, the
\* module record is copied field by field.
Clone(b, h, slot) ==
    LET a == Len(h)
    IN  [builder |-> [name |-> a + 1, version |-> a + 2, functions |-> a + 3,
                      module |-> b.module],
         heap |-> h \o <<Cell(slot, h[b.name].data), Cell(slot, h[b.version].data),
                         Cell(slot, h[b.functions].data)>>]

\* A mutant of StartupFunction: the record is rebuilt around the new callback.
StartupFunctionResetting(b, func) ==
    [b EXCEPT !.module = [NewModuleEntry EXCEPT !.module_startup_func = Some(func)]]

StartupFunction(b, func) ==
    [b EXCEPT !.module.module_startup_func = Some(func)]

ShutdownFunction(b, func) ==
    [b EXCEPT !.module.module_shutdown_func = Some(func)]

RequestStartupFunction(b, func) ==
    [b EXCEPT !.module.module_startup_func = Some(func)]

RequestShutdownFunction(b, func) ==
    [b EXCEPT !.module.module_shutdown_func = Some(func)]

InfoFunction(b, func) ==
    [b EXCEPT !.module.info_func = Some(func)]

\* A mutant of Function: the new entry goes to the front.
FunctionPrepend(b, h, func) ==
    [h EXCEPT ![b.functions].data = <<func>> \o @]

\* ModuleBuilder::function: push onto self.functions.
Function(b, h, func) ==
    [h EXCEPT ![b.functions].data = Append(@, func)]

\* A mutant of Build: the sentinel is not pushed.
BuildNoSentinel(b, h, slot) ==
    LET h2   == IntoRaw(h, b.functions)
        m1   == [b.module EXCEPT !.functions = b.functions]
        h3   == IntoRaw([h2 EXCEPT ![b.name].data = Append(@, NUL)], b.name)
        m2   == [m1 EXCEPT !.name = b.name]
        h4   == IntoRaw([h3 EXCEPT ![b.version].data = Append(@, NUL)], b.version)
        m3   == [m2 EXCEPT !.version = b.version]
    IN  IF HasNul(h[b.name].data) \/ HasNul(h[b.version].data)
        THEN [result |-> Err("InvalidName"), heap |-> DropOwned(h2, slot)]
        ELSE [result |-> Ok(m3), heap |-> DropOwned(h4, slot)]

\* ModuleBuilder::build.  self is consumed: on every return path the fields
\* that were not moved out are dropped.
Build(b, h, slot) ==
    LET \* self.functions.push(FunctionEntry::end())
        h1   == [h EXCEPT ![b.functions].data = Append(@, FunctionEntryEnd)]
        \* self.module.functions = Box::into_raw(self.functions.into_boxed_slice())
        h2   == IntoRaw(h1, b.functions)
        m1   == [b.module EXCEPT !.functions = b.functions]
        \* self.module.name = CString::new(self.name)?.into_raw()
        name == CStringNew(h2[b.name].data)
        h3   == IntoRaw([h2 EXCEPT ![b.name].data = name.val], b.name)
        m2   == [m1 EXCEPT !.name = b.name]
        \* self.module.version = CString::new(self.version)?.into_raw()
        version == CStringNew(h3[b.version].data)
        h4   == IntoRaw([h3 EXCEPT ![b.version].data = version.val], b.version)
        m3   == [m2 EXCEPT !.version = b.version]
    IN  IF ~name.ok
        THEN [result |-> Err("InvalidName"), heap |-> DropOwned(h2, slot)]
        ELSE IF ~version.ok
        THEN [result |-> Err("InvalidName"), heap |-> DropOwned(h3, slot)]
        ELSE [result |-> Ok(m3), heap |-> DropOwned(h4, slot)]

\* ModuleEntry::into_raw: Box::into_raw(Box::new(self)).
ModuleEntryIntoRaw(m, h) ==
    [ptr |-> Len(h) + 1, heap |-> IntoRaw(Append(h, Cell(NoOwner, m)), Len(h) + 1)]

----------------------------------------------------------------------------
(* The operations on builders.  Each slot holds a builder and its history: *)
(* the builder it was cloned from (origin), the strings it was created     *)
(* with, the functions added and the last argument of each setter.         *)

Setters ==
    {"startup_function", "shutdown_function", "request_startup_function",
     "request_shutdown_function", "info_function"}

FreeSlot == CHOOSE i \in 1..(Cardinality(DOMAIN builders) + 1) : i \notin DOMAIN builders

Without(f, i) == [j \in DOMAIN f \ {i} |-> f[j]]

Step == nops < MaxOps /\ nops' = nops + 1 /\ UNCHANGED <<seqVars, allocVars>>

\* get_module constructs the one builder of the extension.
DoNew ==
    \E name \in Strings, version \in Strings :
        LET slot == FreeSlot
            r    == New(heap, slot, name, version)
        IN  /\ heap = <<>>
            /\ builders' = builders @@ (slot :>
                   [b |-> r.builder,
                    hist |-> [origin |-> r.builder.name, name |-> name,
                              version |-> version, added |-> <<>>,
                              last |-> [s \in Setters |-> None]]])
            /\ heap' = r.heap
            /\ UNCHANGED <<results, nops, seqVars, allocVars>>

DoClone ==
    \E i \in DOMAIN builders :
        LET slot == FreeSlot
            r    == Clone(builders[i].b, heap, slot)
        IN  /\ Step
            /\ builders' = builders @@ (slot :> [b |-> r.builder, hist |-> builders[i].hist])
            /\ heap' = r.heap
            /\ UNCHANGED results

Setter(i, which, func, b) ==
    /\ Step
    /\ builders' = [builders EXCEPT ![i].b = b, ![i].hist.last[which] = Some(func)]
    /\ UNCHANGED <<heap, results>>

DoStartupFunction ==
    \E i \in DOMAIN builders, f \in Funcs :
        Setter(i, "startup_function", f, StartupFunction(builders[i].b, f))

DoShutdownFunction ==
    \E i \in DOMAIN builders, f \in Funcs :
        Setter(i, "shutdown_function", f, ShutdownFunction(builders[i].b, f))

DoRequestStartupFunction ==
    \E i \in DOMAIN builders, f \in Funcs :
        Setter(i, "request_startup_function", f, RequestStartupFunction(builders[i].b, f))

DoRequestShutdownFunction ==
    \E i \in DOMAIN builders, f \in Funcs :
        Setter(i, "request_shutdown_function", f, RequestShutdownFunction(builders[i].b, f))

DoInfoFunction ==
    \E i \in DOMAIN builders, f \in InfoFuncs :
        Setter(i, "info_function", f, InfoFunction(builders[i].b, f))

DoFunction ==
    \E i \in DOMAIN builders, f \in FunctionEntries :
        /\ Step
        /\ heap' = Function(builders[i].b, heap, f)
        /\ builders' = [builders EXCEPT ![i].hist.added = Append(@, f)]
        /\ UNCHANGED results

DoBuild ==
    \E i \in DOMAIN builders :
        LET r == Build(builders[i].b, heap, i)
        IN  /\ Step
            /\ builders' = Without(builders, i)
            /\ heap' = r.heap
            /\ results' = Append(results,
                   [res |-> r.result, hist |-> builders[i].hist, raw |-> Null])

\* A builder goes out of scope without being built.
DoDrop ==
    \E i \in DOMAIN builders :
        /\ Step
        /\ builders' = Without(builders, i)
        /\ heap' = DropOwned(heap, i)
        /\ UNCHANGED results

DoIntoRaw ==
    \E k \in 1..Len(results) :
        /\ results[k].res.ok
        /\ results[k].raw = Null
        /\ LET r == ModuleEntryIntoRaw(results[k].res.val, heap)
           IN  /\ Step
               /\ heap' = r.heap
               /\ results' = [results EXCEPT ![k].raw = r.ptr]
               /\ UNCHANGED builders

BuilderNext ==
    \/ DoNew
    \/ DoClone
    \/ DoStartupFunction
    \/ DoShutdownFunction
    \/ DoRequestStartupFunction
    \/ DoRequestShutdownFunction
    \/ DoInfoFunction
    \/ DoFunction
    \/ DoBuild
    \/ DoDrop
    \/ DoIntoRaw

----------------------------------------------------------------------------
(* The host's request arena and PhpAllocator.                              *)

ArenaAddrs == {1, 2, 3}

Layouts == {[size |-> 1, align |-> 1], [size |-> 2, align |-> 2], [size |-> 2, align |-> 1]}

\* _emalloc(size, ..): the host hands out a block of the arena that is not in use.
Emalloc(h, size, addr) ==
    [ptr  |-> addr,
     host |-> [arena |-> h.arena @@ (addr :> size),
               log   |-> Append(h.log, [fn |-> "_emalloc", arg |-> size, ret |-> addr])]]

\* _efree(ptr, ..): the host takes the block back.
Efree(h, ptr) ==
    [arena |-> [a \in DOMAIN h.arena \ {ptr} |-> h.arena[a]],
     log   |-> Append(h.log, [fn |-> "_efree", arg |-> ptr, ret |-> Null])]

\* A mutant of PhpAllocatorAlloc: the request is padded by the alignment.
PhpAllocatorAllocPadded(h, layout, addr) == Emalloc(h, layout.size + layout.align, addr)

\* GlobalAlloc::alloc: _emalloc(layout.size()) as *mut u8.
PhpAllocatorAlloc(h, layout, addr) == Emalloc(h, layout.size, addr)

\* GlobalAlloc::dealloc: _efree(ptr); the layout is not used.
PhpAllocatorDealloc(h, ptr, layout) == Efree(h, ptr)

\* The blocks a caller of the shim holds: allocated through it and not yet
\* deallocated through it, each with the layout it was requested with.
Held(log) ==
    {k \in 1..Len(log) :
        /\ log[k].op = "alloc"
        /\ \A j \in (k + 1)..Len(log) :
               ~(log[j].op = "dealloc" /\ log[j].ptr = log[k].ptr)}

DoAlloc ==
    \E layout \in Layouts, addr \in ArenaAddrs \ DOMAIN host.arena :
        LET r == PhpAllocatorAlloc(host, layout, addr)
        IN  /\ Len(shimLog) < MaxCalls
            /\ host' = r.host
            /\ shimLog' = Append(shimLog, [op |-> "alloc", layout |-> layout, ptr |-> r.ptr])
            /\ UNCHANGED <<seqVars, builderVars>>

\* The caller passes a block it holds, with the layout it was allocated with.
DoDealloc ==
    \E k \in Held(shimLog) :
        /\ Len(shimLog) < MaxCalls
        /\ host' = PhpAllocatorDealloc(host, shimLog[k].ptr, shimLog[k].layout)
        /\ shimLog' = Append(shimLog, [op |-> "dealloc", layout |-> shimLog[k].layout,
                                       ptr |-> shimLog[k].ptr])
        /\ UNCHANGED <<seqVars, builderVars>>

AllocNext == DoAlloc \/ DoDealloc

----------------------------------------------------------------------------
(* Specifications.                                                         *)

Init ==
    /\ state = InitState
    /\ decls = <<>>
    /\ lock = Free
    /\ threads = [t \in ConstThreads \cup StartupThreads |-> Idle]
    /\ builders = <<>>
    /\ heap = <<>>
    /\ results = <<>>
    /\ nops = 0
    /\ host = [arena |-> <<>>, log |-> <<>>]
    /\ shimLog = <<>>

Next == SeqNext \/ ConcNext \/ BuilderNext \/ AllocNext

Spec == Init /\ [][Next]_vars

SeqSpec == Init /\ [][SeqNext]_vars

ConcSpec == Init /\ [][ConcNext]_vars

BuilderSpec == Init /\ [][BuilderNext]_vars

AllocSpec == Init /\ [][AllocNext]_vars

----------------------------------------------------------------------------
(* Properties of the registration state (SeqSpec).                         *)

C7_ModuleTerminal ==
    \A i, j \in 1..Len(decls) :
        (i < j /\ decls[i].kind = "module" /\ decls[i].result.ok) => ~decls[j].result.ok

IsAcceptedConst(d) == d.kind = "const" /\ d.result.ok

\* The inputs of the constant declarations that were accepted, in order.
AcceptedConsts(log) ==
    LET acc == SelectSeq(log, IsAcceptedConst)
    IN  [i \in 1..Len(acc) |-> acc[i].input]

\* C12: a rejected constant declaration leaves the registration state as it
\* was, and the accumulated constants are the accepted ones only.
C12_RejectionLeavesState ==
    [][/\ (Len(decls') = Len(decls) + 1
             /\ decls'[Len(decls')].kind = "const"
             /\ ~decls'[Len(decls')].result.ok) => state' = state
       /\ state'.constants = AcceptedConsts(decls')
      ]_vars

\* Constant B was rejected after the startup function, and the module step
\* then found only constant A.
C12_Witness ==
    \E j, k \in 1..Len(decls) :
        /\ j < k
        /\ decls[j].kind = "const" /\ decls[j].input = "B" /\ ~decls[j].result.ok
        /\ decls[k].kind = "module" /\ decls[k].result.ok
        /\ state.constants = <<"A">>
        /\ state.startup_function = Some("startup_function")

----------------------------------------------------------------------------
(* Properties of the parsers run concurrently (ConcSpec).                  *)

\* C11: the startup check and the append of a constant happen under one
\* hold of the STATE mutex, and no constant is appended once the startup
\* function is recorded, whatever the interleaving.
C11_AtomicCheckAndAppend ==
    [][/\ IsSome(state.startup_function) => state'.constants = state.constants
       /\ \A t \in ConstThreads :
              threads'[t].pc \in {"check", "push"} => lock' = t
      ]_vars

\* A constant was accepted, the startup function recorded, a constant
\* rejected, and a parser is again between its check and its return.
C11_Witness ==
    /\ IsSome(state.startup_function)
    /\ state.constants # <<>>
    /\ \E k \in 1..Len(decls) : decls[k].kind = "const" /\ ~decls[k].result.ok
    /\ \E t \in ConstThreads : threads[t].pc = "check" /\ lock = t

----------------------------------------------------------------------------
(* Properties of ModuleBuilder (BuilderSpec).                              *)

Built == {k \in 1..Len(results) : results[k].res.ok}

Entry(k) == results[k].res.val

Table(k) == heap[Entry(k).functions].data

\* The string a reader of the NUL-terminated buffer at address a sees.
CStrAt(a) == UpToNul(heap[a].data)

\* C2: the function table of every successful build() ends with the
\* all-zero sentinel entry, whatever number of functions was added.
C2_TableTerminated ==
    \A k \in Built :
        /\ Entry(k).functions # Null
        /\ Len(Table(k)) >= 1
        /\ Table(k)[Len(Table(k))] = FunctionEntryEnd

\* A module built with no function added.
C2_Witness == \E k \in Built : results[k].hist.added = <<>>

\* C3: of the builds of one builder, clones included, at most one succeeds
\* and every later one returns AlreadyBuilt.
C3_SingleUse ==
    \A i, j \in 1..Len(results) :
        (i < j /\ results[i].hist.origin = results[j].hist.origin /\ results[i].res.ok)
            => (~results[j].res.ok /\ results[j].res.err = "AlreadyBuilt")

\* C4: build() fails with InvalidName when the name or the version holds a
\* NUL byte; otherwise it succeeds and the name and version pointers are
\* non-null and denote the declared strings.
C4_EmbeddedNul ==
    \A k \in 1..Len(results) :
        LET r == results[k]
        IN  IF HasNul(r.hist.name) \/ HasNul(r.hist.version)
            THEN ~r.res.ok /\ r.res.err = "InvalidName"
            ELSE /\ r.res.ok
                 /\ r.res.val.name # Null /\ r.res.val.version # Null
                 /\ HasNul(heap[r.res.val.name].data)
                 /\ HasNul(heap[r.res.val.version].data)
                 /\ CStrAt(r.res.val.name) = r.hist.name
                 /\ CStrAt(r.res.val.version) = r.hist.version

\* A build refused for a NUL byte in the middle of the name.
C4_Witness ==
    \E k \in 1..Len(results) :
        results[k].hist.name = <<1, NUL, 2>> /\ ~results[k].res.ok

SlotOf(setter) ==
    CASE setter = "startup_function"          -> "module_startup_func"
      [] setter = "shutdown_function"         -> "module_shutdown_func"
      [] setter = "request_startup_function"  -> "request_startup_func"
      [] setter = "request_shutdown_function" -> "request_shutdown_func"
      [] setter = "info_function"             -> "info_func"

\* The module records in existence: of the builders alive and of the modules built.
Records ==
    {[module |-> builders[i].b.module, hist |-> builders[i].hist] : i \in DOMAIN builders}
        \cup {[module |-> Entry(k), hist |-> results[k].hist] : k \in Built}

\* C5: each lifecycle setter writes its own slot: the slot of every setter
\* that was called holds the last value given to that setter.
C5_DistinctSlots ==
    \A r \in Records : \A s \in Setters :
        IsSome(r.hist.last[s]) => r.module[SlotOf(s)] = r.hist.last[s]

\* C6: the buffers a successful build() produced, and the record boxed by
\* into_raw(), are never freed and have no native owner left to free them.
C6_BuffersRelinquished ==
    \A k \in Built :
        /\ \A a \in {Entry(k).functions, Entry(k).name, Entry(k).version} :
               a # Null /\ ~heap[a].freed /\ heap[a].owner = NoOwner
        /\ results[k].raw # Null =>
               /\ ~heap[results[k].raw].freed
               /\ heap[results[k].raw].owner = NoOwner
               /\ heap[results[k].raw].data = Entry(k)

\* A module built and handed over with into_raw().
C6_Witness == \E k \in Built : results[k].raw # Null

PointerFields == {"ini_entry", "deps", "name", "functions", "version", "globals_ptr", "handle"}

CallbackFields ==
    {"module_startup_func", "module_shutdown_func", "request_startup_func",
     "request_shutdown_func", "info_func", "globals_ctor", "globals_dtor",
     "post_deactivate_func"}

\* C8: a builder on which no setter was called has every pointer and
\* callback field null, and in a built record every callback slot whose
\* setter was not called is null.
C8_NullDefaults ==
    /\ \A i \in DOMAIN builders :
           (\A s \in Setters : ~IsSome(builders[i].hist.last[s])) =>
               /\ \A f \in PointerFields : builders[i].b.module[f] = Null
               /\ \A f \in CallbackFields : builders[i].b.module[f] = None
    /\ \A k \in Built : \A s \in Setters :
           ~IsSome(results[k].hist.last[s]) => Entry(k)[SlotOf(s)] = None

\* C10: the table of a successful build() holds the functions added, in the
\* order they were added, followed by the one sentinel.
C10_TableContents ==
    \A k \in Built :
        LET added == results[k].hist.added
            n     == Len(added)
        IN  /\ Len(Table(k)) = n + 1
            /\ \A i \in 1..n : Table(k)[i] = added[i] /\ Table(k)[i] # FunctionEntryEnd
            /\ Table(k)[n + 1] = FunctionEntryEnd

\* A module built after two different functions were added.
C10_Witness ==
    \E k \in Built :
        /\ Len(results[k].hist.added) = 2
        /\ results[k].hist.added[1] # results[k].hist.added[2]

LifecycleSlots ==
    {"module_startup_func", "module_shutdown_func", "request_startup_func",
     "request_shutdown_func"}

\* The slots a call of the setter may write.
Targets(setter) == IF setter = "info_function" THEN {"info_func"} ELSE LifecycleSlots

\* The builder in slot i keeps its three buffers, with what they hold.
SameBuffers(i) ==
    /\ builders'[i].b.name = builders[i].b.name
    /\ builders'[i].b.version = builders[i].b.version
    /\ builders'[i].b.functions = builders[i].b.functions
    /\ heap'[builders[i].b.name] = heap[builders[i].b.name]
    /\ heap'[builders[i].b.version] = heap[builders[i].b.version]

HandedOver ==
    UNION {{Entry(k).functions, Entry(k).name, Entry(k).version, results[k].raw} : k \in Built}

\* C14: a build() that fails relinquishes nothing: every buffer that has no
\* owner and was not freed belongs to a module that was built.
C14_AllOrNothing ==
    (\E k \in 1..Len(results) : ~results[k].res.ok) =>
        \A a \in DOMAIN heap :
            (heap[a].owner = NoOwner /\ ~heap[a].freed) => a \in HandedOver

----------------------------------------------------------------------------
(* Properties of PhpAllocator (AllocSpec).                                 *)

\* C9: every call on the shim is one call of the host with the same size or
\* pointer and the host's answer is returned as it is; the live blocks of
\* the arena are those allocated through the shim and not yet deallocated.
C9_Delegation ==
    /\ Len(host.log) = Len(shimLog)
    /\ \A i \in 1..Len(shimLog) :
           IF shimLog[i].op = "alloc"
           THEN host.log[i] = [fn |-> "_emalloc", arg |-> shimLog[i].layout.size,
                               ret |-> shimLog[i].ptr]
           ELSE host.log[i] = [fn |-> "_efree", arg |-> shimLog[i].ptr, ret |-> Null]
    /\ DOMAIN host.arena = {shimLog[k].ptr : k \in Held(shimLog)}
    /\ \A k \in Held(shimLog) : host.arena[shimLog[k].ptr] = shimLog[k].layout.size

\* A block was given back and its address handed out again.
C9_Witness ==
    \E i, j, k \in 1..Len(shimLog) :
        /\ i < j /\ j < k
        /\ shimLog[i].op = "alloc" /\ shimLog[j].op = "dealloc" /\ shimLog[k].op = "alloc"
        /\ shimLog[j].ptr = shimLog[i].ptr /\ shimLog[k].ptr = shimLog[i].ptr

====
